---- MODULE Spec2Model ----
(***************************************************************************)
(* Expense Manager Pro: the store (users, teams, team members, categories, *)
(* expenses, budgets) and the handlers that read and write it.             *)
(*                                                                         *)
(* Units: every amount is an integer number of mils (thousandths); a       *)
(* numeric(10,2) column rounds what is written into it to whole cents.     *)
(* A Date is an instant counted in ticks, TicksPerDay ticks to a UTC day;  *)
(* a date column holds the day number.                                     *)
(***************************************************************************)
EXTENDS Integers, Sequences, FiniteSets, TLC

VARIABLES users, teams, teamMembers, categories, expenses, budgets,
          notifications, tokens, serial, inflight, log, analytics, reply

vars == <<users, teams, teamMembers, categories, expenses, budgets,
          notifications, tokens, serial, inflight, log, analytics, reply>>

\* the tables, and serial: the next id of each table that loses rows
store == <<users, teams, teamMembers, categories, expenses, budgets,
           notifications, tokens, serial>>

(***************************************************************************)
(* Bounds                                                                  *)
(***************************************************************************)
\* rows of the expenses table in the lifecycle specification
MaxExpenses == 2
\* handler calls recorded in the lifecycle specification
MaxCalls == 2
\* rows of the expenses table in the analytics specification
MaxRows == 2
\* rows of the budgets table
MaxBudgets == 5
\* rows of the notifications table
MaxNotifications == 1
\* rows of the categories table
MaxCategories == 5
\* ids the teams table hands out
MaxTeams == 4
\* ids the team_members table hands out
MaxMembers == 4
\* calls that have started and not returned
MaxInflight == 2
\* ticks of a Date per UTC day
TicksPerDay == 2
\* days per calendar month
DaysPerMonth == 2
\* units of a percentage per percent: percentages are cut to this precision
PctScale == 100

(***************************************************************************)
(* Schema                                                                  *)
(***************************************************************************)
\* SQL NULL of a nullable integer / timestamp column; serial ids start at 1
NULL == 0

Roles == {"admin", "manager", "user"}

Statuses == {"draft", "pending", "approved", "rejected", "paid"}

\* Date.toISOString().split('T')[0]: the UTC day of an instant
ISODate(t) == t \div TicksPerDay

\* a JS number written into a numeric(10,2) column: rounded half up to cents
ToNumeric2(mils) == ((mils + 5) \div 10) * 10

\* TO_CHAR(expense_date, 'YYYY-MM')
MonthKey(day) == day \div DaysPerMonth

RECURSIVE SeqOfSet(_)
SeqOfSet(S) ==
  IF S = {} THEN <<>>
  ELSE LET m == CHOOSE x \in S : \A y \in S : x <= y
       IN <<m>> \o SeqOfSet(S \ {m})

Ids(table) == DOMAIN table

\* the table after INSERT of row under the serial id
Inserted(table, id, row) ==
  [i \in Ids(table) \cup {id} |-> IF i = id THEN row ELSE table[i]]

\* the table after DELETE of the rows with the ids of S
Deleted(table, S) == [i \in Ids(table) \ S |-> table[i]]

(***************************************************************************)
(* The seeded store: rows inserted into the tables before the handlers run *)
(***************************************************************************)
\* users 1..5: an admin, a manager of one team, a user, a manager of two
\* teams, a manager without a team
SeedUsers ==
  <<[role |-> "admin", is_active |-> TRUE, email_verified |-> FALSE],
    [role |-> "manager", is_active |-> TRUE, email_verified |-> FALSE],
    [role |-> "user", is_active |-> TRUE, email_verified |-> FALSE],
    [role |-> "manager", is_active |-> TRUE, email_verified |-> FALSE],
    [role |-> "manager", is_active |-> TRUE, email_verified |-> FALSE]>>

\* an id that matches no row of users
UnknownUser == Len(SeedUsers) + 4

SeedTeams == <<[manager_id |-> 2], [manager_id |-> 4], [manager_id |-> 4]>>

\* an id that matches no row of teams
UnknownTeam == Len(SeedTeams) + 6

\* user 3 is a member of team 1
SeedTeamMembers == {[id |-> 1, team_id |-> 1, user_id |-> 3]}

\* the next value of the id sequence of teams, team_members and notifications
SeedSerial ==
  [teams |-> Len(SeedTeams) + 1,
   teamMembers |-> Cardinality(SeedTeamMembers) + 1,
   notifications |-> 1]

SeedCategories ==
  <<[name |-> "Travel", parent_id |-> NULL, is_active |-> TRUE],
    [name |-> "Office Supplies", parent_id |-> NULL, is_active |-> TRUE]>>

\* an id that matches no row of categories
UnknownCategory == Len(SeedCategories) + 7

\* an active budget of user 3 covering day 1 only, an inactive budget of
\* user 2 and an active budget of user 2 covering day 2 only
SeedBudgets ==
  <<[user_id |-> 3, category_id |-> 1, amount |-> 3000, start_date |-> 1,
     end_date |-> 1, alert_threshold |-> 8000, is_active |-> TRUE],
    [user_id |-> 2, category_id |-> NULL, amount |-> 1000, start_date |-> 1,
     end_date |-> 2, alert_threshold |-> 8000, is_active |-> FALSE],
    [user_id |-> 2, category_id |-> NULL, amount |-> 2000, start_date |-> 2,
     end_date |-> 2, alert_threshold |-> 8000, is_active |-> TRUE]>>

\* new Date() at the time of a call: the first instant of day 1
Now == TicksPerDay

ExpenseRow(u, c, a, desc, d, st, by, at, t) ==
  [user_id |-> u, category_id |-> c, amount |-> a, description |-> desc,
   expense_date |-> d, status |-> st, approved_by |-> by, approved_at |-> at,
   team_id |-> t]

\* no row: what a lookup of a missing id yields, and the row of a failed call
NoRow == ExpenseRow(NULL, NULL, 0, "", 0, "none", NULL, NULL, NULL)

\* an expense of user 3 in team 1 and category 1, dated day 1, of 2.50 (over
\* 80% of the budget of user 3), in one of the statuses of the schema, its
\* approval columns as an earlier run of the workflow left them. Rows reach
\* the table in every status by direct insertion (the analytics tests insert
\* 'approved' rows); of the handlers only createExpense writes a row, as draft
SeedExpense(st) ==
  ExpenseRow(3, 1, 2500, "seed", 1, st,
             IF st \in {"approved", "rejected", "paid"} THEN 2 ELSE NULL,
             IF st \in {"approved", "rejected", "paid"} THEN Now ELSE NULL,
             1)

Stored(id) == IF id \in Ids(expenses) THEN expenses[id] ELSE NoRow

\* the response of the last call of a handler outside the expense workflow:
\* the request, whether it resolved, the error it threw, the row or the rows
\* it resolved with
Reply(op, actor, req, ok, error, row, rows) ==
  [op |-> op, actor |-> actor, req |-> req, ok |-> ok, error |-> error,
   row |-> row, rows |-> rows]

\* before any such call
NoReply == Reply("", NULL, <<>>, FALSE, "", <<>>, <<>>)

\* one entry of the call log: the request, what the call returned, and (as
\* history) the stored row of that id before and after the call
Call(op, actor, id, req, ok, error, row, after) ==
  [op |-> op, actor |-> actor, id |-> id, req |-> req, before |-> Stored(id),
   ok |-> ok, error |-> error, row |-> row, after |-> after]

(***************************************************************************)
(* handlers/expenses.ts                                                    *)
(***************************************************************************)
\* the inserted values, the row submitted for approval at once
values_Pending(category_id, team_id, amount, expense_date, description, userId) ==
  ExpenseRow(userId, category_id, ToNumeric2(amount), description,
             ISODate(expense_date), "pending", NULL, NULL,
             IF team_id # 0 THEN team_id ELSE NULL)

\* .values({...}): the row createExpense inserts; approved_by and approved_at
\* are not given and default to null
values(category_id, team_id, amount, expense_date, description, userId) ==
  ExpenseRow(userId, category_id, ToNumeric2(amount), description,
             ISODate(expense_date), "draft", NULL, NULL,
             IF team_id # 0 THEN team_id ELSE NULL)

\* createExpense(input, userId)
createExpense(category_id, team_id, amount, expense_date, description, userId) ==
  /\ Len(log) < MaxCalls
  /\ LET row == values(category_id, team_id, amount, expense_date, description,
                       userId)
         req == [row EXCEPT !.team_id = team_id, !.amount = amount,
                            !.expense_date = expense_date]
         new == Len(expenses) + 1
     IN IF category_id \notin Ids(categories)
        THEN /\ log' = Append(log, Call("createExpense", userId, NULL, req,
                                        FALSE, "Category does not exist", NoRow, NoRow))
             /\ UNCHANGED expenses
        ELSE IF team_id # 0 /\ team_id \notin Ids(teams)
        THEN /\ log' = Append(log, Call("createExpense", userId, NULL, req,
                                        FALSE, "Team does not exist", NoRow, NoRow))
             /\ UNCHANGED expenses
        ELSE IF userId \notin Ids(users)
        THEN /\ log' = Append(log, Call("createExpense", userId, NULL, req,
                                        FALSE, "foreign key violation", NoRow, NoRow))
             /\ UNCHANGED expenses
        ELSE /\ Len(expenses) < MaxExpenses
             /\ expenses' = Append(expenses, row)
             /\ log' = Append(log, Call("createExpense", userId, new, req,
                                        TRUE, "", row, row))
  /\ UNCHANGED <<users, teams, teamMembers, categories, budgets,
                 notifications, tokens, serial, inflight, analytics, reply>>

\* updateExpense(input, userId): returns a made-up row, reads and writes nothing
updateExpense(id, category_id, amount, description, userId) ==
  /\ Len(log) < MaxCalls
  /\ LET row == ExpenseRow(userId,
                           IF category_id # 0 THEN category_id ELSE 1,
                           IF amount # 0 THEN amount ELSE 0,
                           IF description # "" THEN description ELSE "",
                           ISODate(Now), "draft", NULL, NULL, NULL)
         req == [category_id |-> category_id, amount |-> amount,
                 description |-> description]
     IN log' = Append(log, Call("updateExpense", userId, id, req, TRUE, "", row,
                                Stored(id)))
  /\ UNCHANGED <<inflight, store, analytics, reply>>

\* approveExpense(input, approverId): returns a made-up row, reads and writes
\* nothing
approveExpense(expense_id, status, approverId) ==
  /\ Len(log) < MaxCalls
  /\ LET row == ExpenseRow(1, 1, 100000, "Sample expense", ISODate(Now), status,
                           approverId, Now, NULL)
     IN log' = Append(log, Call("approveExpense", approverId, expense_id,
                                [status |-> status], TRUE, "", row, Stored(expense_id)))
  /\ UNCHANGED <<inflight, store, analytics, reply>>

(***************************************************************************)
(* handlers/update_expense.ts, handlers/approve_expense.ts                 *)
(***************************************************************************)
\* updateExpense(input) of update_expense.ts; the caller is not a parameter
update_expense_updateExpense(id, amount, status, approved_by) ==
  /\ Len(log) < MaxCalls
  /\ LET row == ExpenseRow(1, 1,
                           IF amount # 0 THEN amount ELSE 0,
                           "Updated expense", ISODate(Now),
                           IF status # "" THEN status ELSE "pending",
                           IF approved_by # 0 THEN approved_by ELSE NULL,
                           IF approved_by # 0 THEN Now ELSE NULL,
                           NULL)
         req == [amount |-> amount, status |-> status, approved_by |-> approved_by]
     IN log' = Append(log, Call("update_expense", NULL, id, req, TRUE, "", row,
                                Stored(id)))
  /\ UNCHANGED <<inflight, store, analytics, reply>>

\* approveExpense(expenseId, approverId, approved) of approve_expense.ts
approve_expense_approveExpense(expenseId, approverId, approved) ==
  /\ Len(log) < MaxCalls
  /\ LET status == IF approved THEN "approved" ELSE "rejected"
         row == ExpenseRow(1, 1, 100000, "Approved expense", ISODate(Now), status,
                           approverId, Now, NULL)
     IN log' = Append(log, Call("approve_expense", approverId, expenseId,
                                [status |-> status], TRUE, "", row, Stored(expenseId)))
  /\ UNCHANGED <<inflight, store, analytics, reply>>

(***************************************************************************)
(* handlers/budgets.ts: budgets                                            *)
(***************************************************************************)
BudgetRow(u, c, a, start_date, end_date, threshold, active) ==
  [user_id |-> u, category_id |-> c, amount |-> a,
   start_date |-> start_date, end_date |-> end_date,
   alert_threshold |-> threshold, is_active |-> active]

\* createBudget(input, userId); the dates are stored as given, in any order.
\* alert_threshold is in units of 1/PctScale percent, the scale of its column
createBudget(category_id, amount, start_date, end_date, alert_threshold, userId) ==
  LET req == [category_id |-> category_id, amount |-> amount,
              start_date |-> start_date, end_date |-> end_date,
              alert_threshold |-> alert_threshold]
      row == BudgetRow(userId, category_id, ToNumeric2(amount),
                       ISODate(start_date), ISODate(end_date),
                       alert_threshold, TRUE)
  IN /\ IF userId \notin Ids(users)
        THEN /\ reply' = Reply("createBudget", userId, req, FALSE,
                               "User does not exist", <<>>, <<>>)
             /\ UNCHANGED budgets
        ELSE IF category_id # 0 /\ category_id \notin Ids(categories)
        THEN /\ reply' = Reply("createBudget", userId, req, FALSE,
                               "Category does not exist", <<>>, <<>>)
             /\ UNCHANGED budgets
        ELSE /\ Len(budgets) < MaxBudgets
             /\ budgets' = Append(budgets, row)
             /\ reply' = Reply("createBudget", userId, req, TRUE, "", row, <<>>)
     /\ UNCHANGED <<users, teams, teamMembers, categories, expenses,
                    notifications, tokens, serial, inflight, log, analytics>>

\* updateBudget(budgetId, input, userId): returns a made-up row, reads and
\* writes nothing
updateBudget(budgetId, amount, start_date, end_date, userId) ==
  LET req == [id |-> budgetId, amount |-> amount, start_date |-> start_date,
              end_date |-> end_date]
      row == BudgetRow(userId, NULL,
                       IF amount # 0 THEN amount ELSE 1000000,
                       ISODate(IF start_date # 0 THEN start_date ELSE Now),
                       ISODate(IF end_date # 0 THEN end_date ELSE Now),
                       80 * PctScale, TRUE)
  IN /\ reply' = Reply("updateBudget", userId, req, TRUE, "", row, <<>>)
     /\ UNCHANGED <<inflight, store, log, analytics>>

\* deleteBudget(budgetId, userId): reports success, reads and writes nothing
deleteBudget(budgetId, userId) ==
  /\ reply' = Reply("deleteBudget", userId, [id |-> budgetId], TRUE, "",
                    [success |-> TRUE], <<>>)
  /\ UNCHANGED <<inflight, store, log, analytics>>

(***************************************************************************)
(* handlers/budgets.ts: utilization and alerts                             *)
(***************************************************************************)
\* getBudgetUtilization(userId): resolves with an empty list, reads nothing
getBudgetUtilization(userId) ==
  /\ reply' = Reply("getBudgetUtilization", userId, <<>>, TRUE, "", <<>>, <<>>)
  /\ UNCHANGED <<inflight, store, log, analytics>>

\* checkBudgetAlerts(userId): resolves with an empty list, reads nothing
checkBudgetAlerts(userId) ==
  /\ reply' = Reply("checkBudgetAlerts", userId, <<>>, TRUE, "", <<>>, <<>>)
  /\ UNCHANGED <<inflight, store, log, analytics>>

(***************************************************************************)
(* handlers/notifications.ts                                               *)
(***************************************************************************)
NotificationRow(user_id, type, metadata) ==
  [user_id |-> user_id, type |-> type, is_read |-> FALSE, metadata |-> metadata]

\* createNotification(input) as the send functions call it: one row is
\* inserted, or the insert violates the foreign key of user_id and the call
\* throws
createNotification(op, req, user_id, type, metadata) ==
  /\ IF user_id \in Ids(users)
     THEN /\ serial.notifications <= MaxNotifications
          /\ notifications' =
               Inserted(notifications, serial.notifications,
                        NotificationRow(user_id, type, metadata))
          /\ serial' = [serial EXCEPT !.notifications = @ + 1]
          /\ reply' = Reply(op, NULL, req, TRUE, "", <<>>, <<>>)
     ELSE /\ reply' = Reply(op, NULL, req, FALSE, "foreign key violation",
                            <<>>, <<>>)
          /\ UNCHANGED <<notifications, serial>>
  /\ UNCHANGED <<users, teams, teamMembers, categories, expenses, budgets,
                 tokens, inflight, log, analytics>>

\* the where clause with the owner not compared
Owned_AnyOwner(notificationId, userId) ==
  {i \in Ids(notifications) : i = notificationId}

\* where(and(eq(id, notificationId), eq(user_id, userId))): the rows the
\* update of markNotificationAsRead and the delete of deleteNotification match
Owned(notificationId, userId) ==
  {i \in Ids(notifications) :
     i = notificationId /\ notifications[i].user_id = userId}

\* the table after UPDATE notifications SET is_read = true on the rows of S
MarkedRead(S) ==
  [i \in Ids(notifications) |->
     IF i \in S THEN [notifications[i] EXCEPT !.is_read = TRUE]
     ELSE notifications[i]]

\* markNotificationAsRead(notificationId, userId)
markNotificationAsRead(notificationId, userId) ==
  LET req == [notificationId |-> notificationId, userId |-> userId]
      result == Owned(notificationId, userId)
  IN /\ notifications' = MarkedRead(result)
     /\ reply' = Reply("markNotificationAsRead", userId, req, TRUE, "",
                       [success |-> result # {}], <<>>)
     /\ UNCHANGED <<users, teams, teamMembers, categories, expenses, budgets,
                    tokens, serial, inflight, log, analytics>>

\* markAllNotificationsAsRead(userId)
markAllNotificationsAsRead(userId) ==
  LET req == [userId |-> userId]
      result == {i \in Ids(notifications) :
                   notifications[i].user_id = userId
                   /\ ~notifications[i].is_read}
  IN /\ notifications' = MarkedRead(result)
     /\ reply' = Reply("markAllNotificationsAsRead", userId, req, TRUE, "",
                       [success |-> TRUE, count |-> Cardinality(result)], <<>>)
     /\ UNCHANGED <<users, teams, teamMembers, categories, expenses, budgets,
                    tokens, serial, inflight, log, analytics>>

\* deleteNotification(notificationId, userId)
deleteNotification(notificationId, userId) ==
  LET req == [notificationId |-> notificationId, userId |-> userId]
      result == Owned(notificationId, userId)
  IN /\ notifications' = Deleted(notifications, result)
     /\ reply' = Reply("deleteNotification", userId, req, TRUE, "",
                       [success |-> result # {}], <<>>)
     /\ UNCHANGED <<users, teams, teamMembers, categories, expenses, budgets,
                    tokens, serial, inflight, log, analytics>>

\* sendBudgetAlert(userId, budgetId, utilizationPercentage)
sendBudgetAlert(userId, budgetId, utilizationPercentage) ==
  createNotification("sendBudgetAlert",
                     [userId |-> userId, budgetId |-> budgetId,
                      utilizationPercentage |-> utilizationPercentage],
                     userId, "budget_alert",
                     [budget_id |-> budgetId,
                      utilization_percentage |-> utilizationPercentage,
                      alert_type |-> "budget_threshold"])

\* sendApprovalResult(expenseId, userId, status, approverName)
sendApprovalResult(expenseId, userId, status) ==
  createNotification("sendApprovalResult",
                     [expenseId |-> expenseId, userId |-> userId,
                      status |-> status],
                     userId,
                     IF status = "approved" THEN "expense_approved"
                     ELSE "expense_rejected",
                     [expense_id |-> expenseId, status |-> status,
                      action_type |-> "approval_result"])

(***************************************************************************)
(* handlers/analytics.ts                                                   *)
(***************************************************************************)
RECURSIVE SumAmounts(_, _)
SumAmounts(table, S) ==
  IF S = {} THEN 0
  ELSE LET id == CHOOSE x \in S : TRUE
       IN table[id].amount + SumAmounts(table, S \ {id})

\* teamIds.map(t => t.id): the ids of the teams whose manager_id is userId
teamIdList(userId) ==
  SeqOfSet({t \in Ids(teams) : teams[t].manager_id = userId})

\* the team condition binds teamIdList...join(',') as ONE parameter of
\* "team_id IN ($n)": the server reads it as an integer, which succeeds only
\* for a list of one id ('7'), and raises invalid input syntax for 'a,b'
TeamParamIsInteger(list) == Len(list) = 1

\* the role-based condition cannot be evaluated: every query of the call
\* raises and the handler rethrows
ConditionsFail(userId, userRole) ==
  /\ userRole # "admin"
  /\ userRole = "manager"
  /\ Len(teamIdList(userId)) > 0
  /\ ~TeamParamIsInteger(teamIdList(userId))

\* Conditions with a regular user also given the rows of the user's teams
Conditions_UserSeesTeam(e, userId, userRole, startDateStr, endDateStr) ==
  /\ e.expense_date >= startDateStr
  /\ e.expense_date <= endDateStr
  /\ IF userRole # "admin"
     THEN IF userRole = "manager"
          THEN IF Len(teamIdList(userId)) > 0
               THEN \/ e.user_id = userId
                    \/ e.team_id # NULL /\ e.team_id = teamIdList(userId)[1]
               ELSE e.user_id = userId
          ELSE \/ e.user_id = userId
               \/ \E m \in teamMembers :
                    m.user_id = userId /\ m.team_id = e.team_id
     ELSE TRUE

\* and(...conditions) on one row of expenses
Conditions(e, userId, userRole, startDateStr, endDateStr) ==
  /\ e.expense_date >= startDateStr
  /\ e.expense_date <= endDateStr
  /\ IF userRole # "admin"
     THEN IF userRole = "manager"
          THEN IF Len(teamIdList(userId)) > 0
               THEN \/ e.user_id = userId
                    \/ e.team_id # NULL /\ e.team_id = teamIdList(userId)[1]
               ELSE e.user_id = userId
          ELSE e.user_id = userId
     ELSE TRUE

\* BudgetConditions without the owner condition
BudgetConditions_AnyOwner(b, userId, userRole, startDateStr, endDateStr) ==
  /\ b.start_date <= endDateStr
  /\ b.end_date >= startDateStr
  /\ b.is_active = TRUE

\* and(...budgetConditions) on one row of budgets
BudgetConditions(b, userId, userRole, startDateStr, endDateStr) ==
  /\ userRole # "admin" => b.user_id = userId
  /\ b.start_date <= endDateStr
  /\ b.end_date >= startDateStr
  /\ b.is_active = TRUE

\* what a JS division by zero yields instead of a number (NaN, Infinity)
NaN == -999999

\* a / b of two JS numbers, cut to a whole unit; it never throws
Quotient(a, b) == IF b = 0 THEN NaN ELSE a \div b

\* a / b, the factor 100 forgotten
Percent_Fraction(a, b) == Quotient(a * PctScale, b)

\* (a / b) * 100 in units of 1/PctScale percent
Percent(a, b) == Quotient(a * 100 * PctScale, b)

\* avgExpense without its guard
avgExpense_Unguarded(totalAmount, expenseCount) ==
  Quotient(totalAmount, expenseCount)

\* avgExpense
avgExpense(totalAmount, expenseCount) ==
  IF expenseCount > 0 THEN Quotient(totalAmount, expenseCount) ELSE 0

\* percentage of one category_breakdown entry
percentage(amount, totalAmount) ==
  IF totalAmount > 0 THEN Percent(amount, totalAmount) ELSE 0

\* variancePercentage
variancePercentage(variance, budgetAmount) ==
  IF budgetAmount > 0 THEN Percent(variance, budgetAmount) ELSE 0

\* the value the call resolves with; quotients are cut to whole units
AnalyticsResult(userId, userRole, startDateStr, endDateStr) ==
  LET matching == {id \in Ids(expenses) :
                     Conditions(expenses[id], userId, userRole,
                                startDateStr, endDateStr)}
      totalAmount == SumAmounts(expenses, matching)
      expenseCount == Cardinality(matching)
      \* innerJoin(categoriesTable ...).groupBy(categoriesTable.name)
      joined == {id \in matching : expenses[id].category_id \in Ids(categories)}
      names == {categories[expenses[id].category_id].name : id \in joined}
      groupAmount(n) ==
        SumAmounts(expenses,
                   {id \in joined : categories[expenses[id].category_id].name = n})
      categoryBreakdown ==
        {[category_name |-> n, amount |-> groupAmount(n),
          percentage |-> percentage(groupAmount(n), totalAmount)] :
           n \in names}
      \* groupBy / orderBy TO_CHAR(expense_date, 'YYYY-MM')
      months == SeqOfSet({MonthKey(expenses[id].expense_date) : id \in matching})
      monthlyTrend ==
        [i \in DOMAIN months |->
           [month |-> months[i],
            amount |-> SumAmounts(expenses,
                         {id \in matching :
                            MonthKey(expenses[id].expense_date) = months[i]})]]
      budgetAmount ==
        SumAmounts(budgets,
                   {id \in Ids(budgets) :
                      BudgetConditions(budgets[id], userId, userRole,
                                       startDateStr, endDateStr)})
      variance == totalAmount - budgetAmount
  IN [total_amount |-> totalAmount,
      expense_count |-> expenseCount,
      avg_expense |-> avgExpense(totalAmount, expenseCount),
      category_breakdown |-> categoryBreakdown,
      monthly_trend |-> monthlyTrend,
      budget_vs_actual |->
        [budget_amount |-> budgetAmount, actual_amount |-> totalAmount,
         variance |-> variance,
         variance_percentage |-> variancePercentage(variance, budgetAmount)]]

NoResult ==
  [total_amount |-> 0, expense_count |-> 0, avg_expense |-> 0,
   category_breakdown |-> {}, monthly_trend |-> <<>>,
   budget_vs_actual |->
     [budget_amount |-> 0, actual_amount |-> 0, variance |-> 0,
      variance_percentage |-> 0]]

\* before any call
NoAnalytics ==
  [call |-> [called |-> FALSE, userId |-> NULL, userRole |-> "",
             startDateStr |-> 0, endDateStr |-> 0],
   ok |-> FALSE, error |-> "", result |-> NoResult]

\* getExpenseAnalytics(userId, userRole, startDate, endDate): the call and what
\* it resolved with, or that it threw
getExpenseAnalytics(userId, userRole, startDate, endDate) ==
  LET startDateStr == ISODate(startDate)
      endDateStr == ISODate(endDate)
      call == [called |-> TRUE, userId |-> userId, userRole |-> userRole,
               startDateStr |-> startDateStr, endDateStr |-> endDateStr]
  IN /\ analytics' =
          IF ConditionsFail(userId, userRole)
          THEN [call |-> call, ok |-> FALSE, error |-> "invalid input syntax",
                result |-> NoResult]
          ELSE [call |-> call, ok |-> TRUE, error |-> "",
                result |-> AnalyticsResult(userId, userRole,
                                           startDateStr, endDateStr)]
     /\ UNCHANGED <<inflight, store, log, reply>>

(***************************************************************************)
(* handlers/create_team.ts: the category handlers                          *)
(***************************************************************************)
CategoryRow(name, parent_id, is_active) ==
  [name |-> name, parent_id |-> parent_id, is_active |-> is_active]

\* createCategory with the parent not looked up
createCategory_NoParentLookup(name, parent_id) ==
  LET req == [name |-> name, parent_id |-> parent_id]
      row == CategoryRow(name, IF parent_id # 0 THEN parent_id ELSE NULL, TRUE)
  IN /\ Len(categories) < MaxCategories
     /\ categories' = Append(categories, row)
     /\ reply' = Reply("createCategory", NULL, req, TRUE, "", row, <<>>)
     /\ UNCHANGED <<users, teams, teamMembers, expenses, budgets,
                    notifications, tokens, serial, inflight, log, analytics>>

\* createCategory(input)
createCategory(name, parent_id) ==
  LET req == [name |-> name, parent_id |-> parent_id]
      row == CategoryRow(name, IF parent_id # 0 THEN parent_id ELSE NULL, TRUE)
  IN /\ IF parent_id # 0 /\ parent_id \notin Ids(categories)
        THEN /\ reply' = Reply("createCategory", NULL, req, FALSE,
                               "Parent category not found", <<>>, <<>>)
             /\ UNCHANGED categories
        ELSE IF parent_id # 0 /\ ~categories[parent_id].is_active
        THEN /\ reply' = Reply("createCategory", NULL, req, FALSE,
                               "Cannot create subcategory under inactive parent",
                               <<>>, <<>>)
             /\ UNCHANGED categories
        ELSE /\ Len(categories) < MaxCategories
             /\ categories' = Append(categories, row)
             /\ reply' = Reply("createCategory", NULL, req, TRUE, "", row, <<>>)
     /\ UNCHANGED <<users, teams, teamMembers, expenses, budgets,
                    notifications, tokens, serial, inflight, log, analytics>>

\* updateCategory(categoryId, input): returns a made-up row, reads and writes
\* nothing
updateCategory(categoryId, name, parent_id) ==
  LET req == [id |-> categoryId, name |-> name, parent_id |-> parent_id]
      row == CategoryRow(IF name # "" THEN name ELSE "Updated Category",
                         IF parent_id # 0 THEN parent_id ELSE NULL, TRUE)
  IN /\ reply' = Reply("updateCategory", NULL, req, TRUE, "", row, <<>>)
     /\ UNCHANGED <<inflight, store, log, analytics>>

\* deleteCategory(categoryId): reports success, reads and writes nothing
deleteCategory(categoryId) ==
  /\ reply' = Reply("deleteCategory", NULL, [id |-> categoryId], TRUE, "",
                    [success |-> TRUE], <<>>)
  /\ UNCHANGED <<inflight, store, log, analytics>>

(***************************************************************************)
(* handlers/teams.ts                                                       *)
(***************************************************************************)
IsManagerRole(u) == users[u].role = "manager" \/ users[u].role = "admin"

\* createTeam(input)
createTeam(manager_id) ==
  LET req == [manager_id |-> manager_id]
      row == [manager_id |-> manager_id]
  IN /\ IF manager_id \notin Ids(users)
        THEN /\ reply' = Reply("createTeam", NULL, req, FALSE,
                               "Manager not found", <<>>, <<>>)
             /\ UNCHANGED <<teams, serial>>
        ELSE IF ~IsManagerRole(manager_id)
        THEN /\ reply' = Reply("createTeam", NULL, req, FALSE,
                               "User must be a manager or admin to manage teams",
                               <<>>, <<>>)
             /\ UNCHANGED <<teams, serial>>
        ELSE /\ serial.teams <= MaxTeams
             /\ teams' = Inserted(teams, serial.teams, row)
             /\ serial' = [serial EXCEPT !.teams = @ + 1]
             /\ reply' = Reply("createTeam", NULL, req, TRUE, "", row, <<>>)
     /\ UNCHANGED <<users, teamMembers, categories, expenses, budgets,
                    notifications, tokens, inflight, log, analytics>>

\* the permission check with the role test dropped: any existing user passes
Permission_AnyUser(teamId, requesterId, missing, denied) ==
  IF teamId \notin Ids(teams) THEN "Team not found"
  ELSE IF requesterId \notin Ids(users) THEN missing
  ELSE ""

\* "Verify team exists and user has permission": the error the first lines of
\* updateTeam, deleteTeam, addTeamMember and removeTeamMember throw, "" if none
Permission(teamId, requesterId, missing, denied) ==
  IF teamId \notin Ids(teams) THEN "Team not found"
  ELSE IF requesterId \notin Ids(users) THEN missing
  ELSE IF users[requesterId].role # "admin"
          /\ teams[teamId].manager_id # requesterId
  THEN denied
  ELSE ""

\* the error updateTeam throws before it updates, "" if none
updateTeamError(teamId, manager_id, userId) ==
  LET error == Permission(teamId, userId, "User not found",
                 "Access denied: Only team managers or admins can update teams")
  IN IF error # "" THEN error
     ELSE IF manager_id # 0 /\ manager_id # teams[teamId].manager_id
     THEN IF manager_id \notin Ids(users) THEN "New manager not found"
          ELSE IF ~IsManagerRole(manager_id)
          THEN "New manager must have manager or admin role"
          ELSE ""
     ELSE ""

\* updateTeam(teamId, input, userId); manager_id NULL: the input has none
updateTeam(teamId, manager_id, userId) ==
  LET req == [teamId |-> teamId, manager_id |-> manager_id]
      error == updateTeamError(teamId, manager_id, userId)
      row == IF manager_id # NULL THEN [teams[teamId] EXCEPT !.manager_id = manager_id]
             ELSE teams[teamId]
  IN /\ IF error # ""
        THEN /\ reply' = Reply("updateTeam", userId, req, FALSE, error, <<>>, <<>>)
             /\ UNCHANGED teams
        ELSE /\ teams' = [teams EXCEPT ![teamId] = row]
             /\ reply' = Reply("updateTeam", userId, req, TRUE, "", row, <<>>)
     /\ UNCHANGED <<users, teamMembers, categories, expenses, budgets,
                    notifications, tokens, serial, inflight, log, analytics>>

\* the expenses of the team keep it unless they are pending
Unassigned_PendingOnly(teamId) ==
  [i \in Ids(expenses) |->
     IF expenses[i].team_id = teamId /\ expenses[i].status = "pending"
     THEN [expenses[i] EXCEPT !.team_id = NULL]
     ELSE expenses[i]]

\* UPDATE expenses SET team_id = null WHERE team_id = teamId
Unassigned(teamId) ==
  [i \in Ids(expenses) |->
     IF expenses[i].team_id = teamId
     THEN [expenses[i] EXCEPT !.team_id = NULL]
     ELSE expenses[i]]

\* deleteTeam(teamId, userId)
deleteTeam(teamId, userId) ==
  LET req == [teamId |-> teamId]
      error == Permission(teamId, userId, "User not found",
                 "Access denied: Only team managers or admins can delete teams")
  IN /\ IF error # ""
        THEN /\ reply' = Reply("deleteTeam", userId, req, FALSE, error, <<>>, <<>>)
             /\ UNCHANGED <<teams, teamMembers, expenses>>
        ELSE /\ expenses' = Unassigned(teamId)
             /\ teamMembers' = {m \in teamMembers : m.team_id # teamId}
             /\ teams' = Deleted(teams, {teamId})
             /\ reply' = Reply("deleteTeam", userId, req, TRUE, "",
                               [success |-> TRUE], <<>>)
     /\ UNCHANGED <<users, categories, budgets, notifications, tokens, serial,
                    inflight, log, analytics>>

\* the membership rows of the user in the team
Memberships(teamId, userId) ==
  {m \in teamMembers : m.team_id = teamId /\ m.user_id = userId}

\* the error addTeamMember throws before it inserts, "" if none
addTeamMemberError(teamId, userId, managerId) ==
  LET error == Permission(teamId, managerId, "Manager not found",
                 "Access denied: Only team managers or admins can add members")
  IN IF error # "" THEN error
     ELSE IF userId \notin Ids(users) THEN "User not found"
     ELSE IF Memberships(teamId, userId) # {}
     THEN "User is already a member of this team"
     ELSE ""

\* the row addTeamMember inserts
MemberRow(teamId, userId) ==
  [id |-> serial.teamMembers, team_id |-> teamId, user_id |-> userId]

\* addTeamMember(teamId, userId, managerId)
addTeamMember(teamId, userId, managerId) ==
  LET req == [teamId |-> teamId, userId |-> userId]
      error == addTeamMemberError(teamId, userId, managerId)
      row == MemberRow(teamId, userId)
  IN /\ IF error # ""
        THEN /\ reply' = Reply("addTeamMember", managerId, req, FALSE, error,
                               <<>>, <<>>)
             /\ UNCHANGED <<teamMembers, serial>>
        ELSE /\ serial.teamMembers <= MaxMembers
             /\ teamMembers' = teamMembers \cup {row}
             /\ serial' = [serial EXCEPT !.teamMembers = @ + 1]
             /\ reply' = Reply("addTeamMember", managerId, req, TRUE, "", row,
                               <<>>)
     /\ UNCHANGED <<users, teams, categories, expenses, budgets,
                    notifications, tokens, inflight, log, analytics>>

\* addTeamMember up to its insert, when calls interleave: the four selects
\* (teams and users are not written while it runs, so they read as one); the
\* call then waits to insert, or has thrown
addTeamMember_selects(teamId, userId, managerId) ==
  LET req == [teamId |-> teamId, userId |-> userId]
      error == addTeamMemberError(teamId, userId, managerId)
      n == CHOOSE k \in 1..MaxInflight : \A c \in inflight : c.n # k
  IN /\ IF error # ""
        THEN /\ reply' = Reply("addTeamMember", managerId, req, FALSE, error,
                               <<>>, <<>>)
             /\ UNCHANGED inflight
        ELSE /\ Cardinality(inflight) < MaxInflight
             /\ inflight' = inflight \cup
                  {[n |-> n, op |-> "addTeamMember", teamId |-> teamId,
                    userId |-> userId, managerId |-> managerId]}
             /\ UNCHANGED reply
     /\ UNCHANGED <<users, teams, teamMembers, categories, expenses, budgets,
                    notifications, tokens, serial, log, analytics>>

\* the insert of a waiting addTeamMember: team_members has no unique
\* constraint on (team_id, user_id), only the foreign keys can refuse the row
addTeamMember_insert(call) ==
  LET req == [teamId |-> call.teamId, userId |-> call.userId]
      row == MemberRow(call.teamId, call.userId)
  IN /\ call.op = "addTeamMember"
     /\ inflight' = inflight \ {call}
     /\ IF call.teamId \notin Ids(teams) \/ call.userId \notin Ids(users)
        THEN /\ reply' = Reply("addTeamMember", call.managerId, req, FALSE,
                               "foreign key violation", <<>>, <<>>)
             /\ UNCHANGED <<teamMembers, serial>>
        ELSE /\ serial.teamMembers <= MaxMembers
             /\ teamMembers' = teamMembers \cup {row}
             /\ serial' = [serial EXCEPT !.teamMembers = @ + 1]
             /\ reply' = Reply("addTeamMember", call.managerId, req, TRUE, "",
                               row, <<>>)
     /\ UNCHANGED <<users, teams, categories, expenses, budgets,
                    notifications, tokens, log, analytics>>

\* the expenses of the user in the team lose it whatever their status
UnassignedMember_AnyStatus(teamId, userId) ==
  [i \in Ids(expenses) |->
     IF expenses[i].team_id = teamId /\ expenses[i].user_id = userId
     THEN [expenses[i] EXCEPT !.team_id = NULL]
     ELSE expenses[i]]

\* UPDATE expenses SET team_id = null WHERE team_id = teamId AND
\* user_id = userId AND status = 'pending'
UnassignedMember(teamId, userId) ==
  [i \in Ids(expenses) |->
     IF expenses[i].team_id = teamId /\ expenses[i].user_id = userId
        /\ expenses[i].status = "pending"
     THEN [expenses[i] EXCEPT !.team_id = NULL]
     ELSE expenses[i]]

\* the error removeTeamMember throws before it updates, "" if none
removeTeamMemberError(teamId, userId, managerId) ==
  LET error == Permission(teamId, managerId, "Manager not found",
                 "Access denied: Only team managers or admins can remove members")
  IN IF error # "" THEN error
     ELSE IF Memberships(teamId, userId) = {}
     THEN "User is not a member of this team"
     ELSE ""

\* removeTeamMember(teamId, userId, managerId)
removeTeamMember(teamId, userId, managerId) ==
  LET req == [teamId |-> teamId, userId |-> userId]
      error == removeTeamMemberError(teamId, userId, managerId)
  IN /\ IF error # ""
        THEN /\ reply' = Reply("removeTeamMember", managerId, req, FALSE,
                               error, <<>>, <<>>)
             /\ UNCHANGED <<teamMembers, expenses>>
        ELSE /\ expenses' = UnassignedMember(teamId, userId)
             /\ teamMembers' = teamMembers \ Memberships(teamId, userId)
             /\ reply' = Reply("removeTeamMember", managerId, req, TRUE, "",
                               [success |-> TRUE], <<>>)
     /\ UNCHANGED <<users, teams, categories, budgets, notifications, tokens,
                    serial, inflight, log, analytics>>

(***************************************************************************)
(* handlers/users.ts                                                       *)
(***************************************************************************)
\* the requester test with the role not compared
NotAdmin_MissingOnly(requesterId) == requesterId \notin Ids(users)

\* requester.length === 0 || requester[0].role !== 'admin'
NotAdmin(requesterId) ==
  requesterId \notin Ids(users) \/ users[requesterId].role # "admin"

\* updateUserRole(userId, newRole, requesterId)
updateUserRole(userId, newRole, requesterId) ==
  LET req == [userId |-> userId, role |-> newRole]
      row == [users[userId] EXCEPT !.role = newRole]
  IN /\ IF NotAdmin(requesterId)
        THEN /\ reply' = Reply("updateUserRole", requesterId, req, FALSE,
                               "Unauthorized: Only admins can update user roles",
                               <<>>, <<>>)
             /\ UNCHANGED users
        ELSE IF userId \notin Ids(users)
        THEN /\ reply' = Reply("updateUserRole", requesterId, req, FALSE,
                               "User not found", <<>>, <<>>)
             /\ UNCHANGED users
        ELSE /\ users' = [users EXCEPT ![userId] = row]
             /\ reply' = Reply("updateUserRole", requesterId, req, TRUE, "",
                               row, <<>>)
     /\ UNCHANGED <<teams, teamMembers, categories, expenses, budgets,
                    notifications, tokens, serial, inflight, log, analytics>>

\* deactivateUser(userId, requesterId)
deactivateUser(userId, requesterId) ==
  LET req == [userId |-> userId]
  IN /\ IF NotAdmin(requesterId)
        THEN /\ reply' = Reply("deactivateUser", requesterId, req, FALSE,
                               "Unauthorized: Only admins can deactivate users",
                               <<>>, <<>>)
             /\ UNCHANGED users
        ELSE IF userId = requesterId
        THEN /\ reply' = Reply("deactivateUser", requesterId, req, FALSE,
                               "Cannot deactivate your own account", <<>>, <<>>)
             /\ UNCHANGED users
        ELSE IF userId \notin Ids(users)
        THEN /\ reply' = Reply("deactivateUser", requesterId, req, FALSE,
                               "User not found", <<>>, <<>>)
             /\ UNCHANGED users
        ELSE /\ users' = [users EXCEPT ![userId].is_active = FALSE]
             /\ reply' = Reply("deactivateUser", requesterId, req, TRUE, "",
                               [success |-> TRUE], <<>>)
     /\ UNCHANGED <<teams, teamMembers, categories, expenses, budgets,
                    notifications, tokens, serial, inflight, log, analytics>>

\* reactivateUser(userId, requesterId)
reactivateUser(userId, requesterId) ==
  LET req == [userId |-> userId]
  IN /\ IF NotAdmin(requesterId)
        THEN /\ reply' = Reply("reactivateUser", requesterId, req, FALSE,
                               "Unauthorized: Only admins can reactivate users",
                               <<>>, <<>>)
             /\ UNCHANGED users
        ELSE IF userId \notin Ids(users)
        THEN /\ reply' = Reply("reactivateUser", requesterId, req, FALSE,
                               "User not found", <<>>, <<>>)
             /\ UNCHANGED users
        ELSE /\ users' = [users EXCEPT ![userId].is_active = TRUE]
             /\ reply' = Reply("reactivateUser", requesterId, req, TRUE, "",
                               [success |-> TRUE], <<>>)
     /\ UNCHANGED <<teams, teamMembers, categories, expenses, budgets,
                    notifications, tokens, serial, inflight, log, analytics>>

(***************************************************************************)
(* handlers/auth.ts                                                        *)
(***************************************************************************)
\* one call of verifyEmail as it returns: { success, message }
Verified(token, success, message) ==
  Call("verifyEmail", NULL, NULL, [token |-> token], success, message, NoRow,
       NoRow)

\* verifyEmail(token) up to its first update: the select of the token and the
\* three checks; the call returns success = false, or goes on to its updates
\* with the token record it read
verifyEmail_select(token) ==
  LET found == {i \in Ids(tokens) : tokens[i].token = token}
      id == CHOOSE i \in found : TRUE
      n == CHOOSE k \in 1..MaxInflight : \A c \in inflight : c.n # k
  IN /\ Len(log) + Cardinality(inflight) < MaxCalls
     /\ IF found = {}
        THEN /\ log' = Append(log, Verified(token, FALSE,
                                "Invalid or expired verification token"))
             /\ UNCHANGED inflight
        ELSE IF tokens[id].used
        THEN /\ log' = Append(log, Verified(token, FALSE,
                                "Verification token has already been used"))
             /\ UNCHANGED inflight
        ELSE IF Now > tokens[id].expires_at
        THEN /\ log' = Append(log, Verified(token, FALSE,
                                "Verification token has expired"))
             /\ UNCHANGED inflight
        ELSE /\ Cardinality(inflight) < MaxInflight
             /\ inflight' = inflight \cup
                  {[n |-> n, op |-> "verifyEmail", pc |-> "users",
                    token |-> token, id |-> id, user_id |-> tokens[id].user_id]}
             /\ UNCHANGED log
     /\ UNCHANGED <<users, teams, teamMembers, categories, expenses, budgets,
                    notifications, tokens, serial, analytics, reply>>

\* the first update of a verifyEmail on its way: the user of the token record
\* is marked as verified
verifyEmail_updateUser(call) ==
  /\ call.op = "verifyEmail"
  /\ call.pc = "users"
  /\ users' = [i \in Ids(users) |->
                 IF i = call.user_id THEN [users[i] EXCEPT !.email_verified = TRUE]
                 ELSE users[i]]
  /\ inflight' = (inflight \ {call}) \cup {[call EXCEPT !.pc = "tokens"]}
  /\ UNCHANGED <<teams, teamMembers, categories, expenses, budgets,
                 notifications, tokens, serial, log, analytics, reply>>

\* its second update and its return: the token record is marked as used,
\* whatever it holds by now, and the call returns success = true
verifyEmail_updateToken(call) ==
  /\ call.op = "verifyEmail"
  /\ call.pc = "tokens"
  /\ tokens' = [i \in Ids(tokens) |->
                  IF i = call.id THEN [tokens[i] EXCEPT !.used = TRUE]
                  ELSE tokens[i]]
  /\ inflight' = inflight \ {call}
  /\ log' = Append(log, Verified(call.token, TRUE, "Email verified successfully"))
  /\ UNCHANGED <<users, teams, teamMembers, categories, expenses, budgets,
                 notifications, serial, analytics, reply>>

(***************************************************************************)
(* The expense workflow: the seeded store, then any calls of the handlers  *)
(***************************************************************************)
Init ==
  /\ users = SeedUsers
  /\ teams = SeedTeams
  /\ teamMembers = SeedTeamMembers
  /\ categories = SeedCategories
  /\ budgets = SeedBudgets
  /\ \E st \in Statuses : expenses = <<SeedExpense(st)>>
  /\ notifications = <<>>
  /\ tokens = <<>>
  /\ serial = SeedSerial
  /\ inflight = {}
  /\ log = <<>>
  /\ analytics = NoAnalytics
  /\ reply = NoReply

\* callers: the admin, the manager of team 1, the owner of the seeded expense,
\* a manager without a team
Actors == {1, 2, 3, 5}

Next ==
  \/ \E c \in {1, UnknownCategory}, t \in {NULL, 1, UnknownTeam} :
       createExpense(c, t, 12345, 1, "new", 3)
  \/ \E id \in Ids(expenses), a \in {NULL, 20000}, u \in {2, 3} :
       updateExpense(id, NULL, a, "", u)
  \/ \E id \in Ids(expenses), st \in {"approved", "rejected"}, u \in Actors :
       approveExpense(id, st, u)
  \/ \E id \in Ids(expenses), a \in {NULL, 20000},
        st \in {"", "pending", "approved"}, by \in {NULL, 2} :
       update_expense_updateExpense(id, a, st, by)
  \/ \E id \in Ids(expenses), u \in Actors, approved \in BOOLEAN :
       approve_expense_approveExpense(id, u, approved)

Spec == Init /\ [][Next]_vars

(***************************************************************************)
(* Analytics over a seeded store                                           *)
(***************************************************************************)
\* the rows createExpense can have written for users 2 and 3, dated day 1
\* (month 0) or day 2 (month 1); an amount below half a cent is stored as 0
AnalyticsRows ==
  {ExpenseRow(u, c, ToNumeric2(a), "row", d, "draft", NULL, NULL, t) :
     u \in {2, 3}, c \in {1, 2}, a \in {4, 1000, 2000}, d \in {1, 2},
     t \in {NULL, 1}}

RECURSIVE SeqsUpTo(_, _)
SeqsUpTo(S, n) ==
  IF n = 0 THEN {<<>>}
  ELSE LET shorter == SeqsUpTo(S, n - 1)
       IN shorter \cup {Append(q, x) : q \in shorter, x \in S}

InitAnalytics ==
  /\ users = SeedUsers
  /\ teams = SeedTeams
  /\ teamMembers = SeedTeamMembers
  /\ categories = SeedCategories
  /\ budgets = SeedBudgets
  /\ expenses \in SeqsUpTo(AnalyticsRows, MaxRows)
  /\ notifications = <<>>
  /\ tokens = <<>>
  /\ serial = SeedSerial
  /\ inflight = {}
  /\ log = <<>>
  /\ analytics = NoAnalytics
  /\ reply = NoReply

\* the first instant of day 1 and the last instant of day 2
Instants == {TicksPerDay, 3 * TicksPerDay - 1}

\* one call is observed per behaviour. A caller passes the id and the role of
\* a user; the handler takes both as given, also for an id that matches no
\* user
NextAnalytics ==
  /\ ~analytics.call.called
  /\ \E userId \in Ids(users) \cup {UnknownUser}, userRole \in Roles,
        startDate \in Instants, endDate \in Instants :
       /\ userId \in Ids(users) => userRole = users[userId].role
       /\ getExpenseAnalytics(userId, userRole, startDate, endDate)

SpecAnalytics == InitAnalytics /\ [][NextAnalytics]_vars

(***************************************************************************)
(* The category tree: categories are created, then expenses in them, then  *)
(* one analytics call of their owner                                       *)
(***************************************************************************)
\* a category that was archived by direct update of its row (the category
\* tests insert such a row); no handler writes is_active
SeedArchived == CategoryRow("Archive", NULL, FALSE)

\* the id of the first category the handlers create
FirstCreated == Len(SeedCategories) + 2

InitCategories ==
  /\ users = SeedUsers
  /\ teams = SeedTeams
  /\ teamMembers = SeedTeamMembers
  /\ categories = Append(SeedCategories, SeedArchived)
  /\ budgets = SeedBudgets
  /\ expenses = <<>>
  /\ notifications = <<>>
  /\ tokens = <<>>
  /\ serial = SeedSerial
  /\ inflight = {}
  /\ log = <<>>
  /\ analytics = NoAnalytics
  /\ reply = NoReply

NextCategories ==
  /\ ~analytics.call.called
  /\ \/ \E name \in {"Travel", "Meals"},
           parent_id \in {NULL, UnknownCategory} \cup Ids(categories) :
          createCategory(name, parent_id)
     \/ \E parent_id \in {NULL, 1, UnknownCategory} :
          updateCategory(1, "", parent_id)
     \/ deleteCategory(1)
     \/ \E c \in {1, Len(SeedCategories) + 1, FirstCreated} :
          /\ c \in Ids(categories)
          /\ createExpense(c, NULL, 1000, TicksPerDay, "new", 3)
     \/ getExpenseAnalytics(3, "user", TicksPerDay, 3 * TicksPerDay - 1)

SpecCategories == InitCategories /\ [][NextCategories]_vars

(***************************************************************************)
(* Approvals, budget utilization and notifications                         *)
(***************************************************************************)
NextAlerts ==
  \/ \E id \in Ids(expenses), st \in {"approved", "rejected"}, u \in {2, 3} :
       approveExpense(id, st, u)
  \/ \E id \in Ids(expenses), approved \in BOOLEAN :
       approve_expense_approveExpense(id, 2, approved)
  \/ \E userId \in {1, 3} : getBudgetUtilization(userId)
  \/ \E userId \in {1, 3} : checkBudgetAlerts(userId)
  \/ \E userId \in {3, UnknownUser} : sendBudgetAlert(userId, 1, 83 * PctScale)
  \/ \E id \in Ids(expenses), status \in {"approved", "rejected"} :
       sendApprovalResult(id, 3, status)

SpecAlerts == Init /\ [][NextAlerts]_vars

(***************************************************************************)
(* Budgets: the seeded store, then any calls of the budget handlers        *)
(***************************************************************************)
NextBudgets ==
  \/ \E category_id \in {NULL, 1, UnknownCategory}, start_date \in Instants,
        end_date \in Instants, userId \in {3, UnknownUser} :
       createBudget(category_id, 1000, start_date, end_date, 80 * PctScale,
                    userId)
  \/ \E budgetId \in {1, Len(SeedBudgets) + 1}, start_date \in Instants,
        end_date \in {NULL} \cup Instants :
       updateBudget(budgetId, NULL, start_date, end_date, 3)
  \/ \E budgetId \in {1, Len(SeedBudgets) + 1} : deleteBudget(budgetId, 3)

SpecBudgets == Init /\ [][NextBudgets]_vars

(***************************************************************************)
(* Teams: seeded teams, members and team expenses, then any calls of the  *)
(* team handlers                                                           *)
(***************************************************************************)
\* expenses of team 1 (of user 3, pending and approved, and of user 5,
\* pending), a pending expense of user 3 in team 2 and one without a team
TeamExpenses ==
  <<ExpenseRow(3, 1, 1000, "a", 1, "pending", NULL, NULL, 1),
    ExpenseRow(3, 1, 1000, "b", 1, "approved", 2, Now, 1),
    ExpenseRow(5, 1, 1000, "c", 1, "pending", NULL, NULL, 1),
    ExpenseRow(3, 1, 1000, "d", 1, "pending", NULL, NULL, 2),
    ExpenseRow(3, 1, 1000, "e", 1, "draft", NULL, NULL, NULL)>>

\* users 3 and 5 are members of team 1, user 3 also of team 2
TeamMembers ==
  {[id |-> 1, team_id |-> 1, user_id |-> 3],
   [id |-> 2, team_id |-> 2, user_id |-> 3],
   [id |-> 3, team_id |-> 1, user_id |-> 5]}

InitTeams ==
  /\ users = SeedUsers
  /\ teams = SeedTeams
  /\ teamMembers = TeamMembers
  /\ categories = SeedCategories
  /\ budgets = SeedBudgets
  /\ expenses = TeamExpenses
  /\ notifications = <<>>
  /\ tokens = <<>>
  /\ serial = [SeedSerial EXCEPT !.teamMembers = Cardinality(TeamMembers) + 1]
  /\ inflight = {}
  /\ log = <<>>
  /\ analytics = NoAnalytics
  /\ reply = NoReply

\* requesters: the admin, the manager of team 1, a member, nobody
Requesters == {1, 2, 3, UnknownUser}

NextTeams ==
  \/ \E teamId \in {1, UnknownTeam}, manager_id \in {NULL, 3, 4, UnknownUser},
        userId \in Requesters :
       updateTeam(teamId, manager_id, userId)
  \/ \E teamId \in {1, 2, UnknownTeam}, userId \in Requesters :
       deleteTeam(teamId, userId)
  \/ \E teamId \in {1, 2, UnknownTeam}, userId \in {3, 5, UnknownUser},
        managerId \in Requesters :
       addTeamMember(teamId, userId, managerId)
  \/ \E teamId \in {1, 2, UnknownTeam}, userId \in {3, 5, UnknownUser},
        managerId \in Requesters :
       removeTeamMember(teamId, userId, managerId)

SpecTeams == InitTeams /\ [][NextTeams]_vars

(***************************************************************************)
(* Memberships under interleaving: addTeamMember calls overlap each other  *)
(* and removeTeamMember calls                                              *)
(***************************************************************************)
NextMembers ==
  \/ \E userId \in {3, 5}, managerId \in {1, 2, 3} :
       addTeamMember_selects(1, userId, managerId)
  \/ \E call \in inflight : addTeamMember_insert(call)
  \/ \E userId \in {3, 5}, managerId \in {1, 2, 3} :
       removeTeamMember(1, userId, managerId)

SpecMembers == Init /\ [][NextMembers]_vars

(***************************************************************************)
(* Notifications: rows of two users, then any calls that read or delete    *)
(* them                                                                    *)
(***************************************************************************)
\* two notifications of user 3 and one of user 2, as the send functions
\* insert them
SeedNotifications ==
  <<NotificationRow(3, "budget_alert",
                    [budget_id |-> 1, utilization_percentage |-> 83 * PctScale,
                     alert_type |-> "budget_threshold"]),
    NotificationRow(2, "expense_approved",
                    [expense_id |-> 1, status |-> "approved",
                     action_type |-> "approval_result"]),
    NotificationRow(3, "expense_rejected",
                    [expense_id |-> 1, status |-> "rejected",
                     action_type |-> "approval_result"])>>

\* an id that matches no row of notifications
UnknownNotification == Len(SeedNotifications) + 5

InitNotifications ==
  /\ users = SeedUsers
  /\ teams = SeedTeams
  /\ teamMembers = SeedTeamMembers
  /\ categories = SeedCategories
  /\ budgets = SeedBudgets
  /\ expenses = <<SeedExpense("approved")>>
  /\ notifications = SeedNotifications
  /\ tokens = <<>>
  /\ serial = [SeedSerial EXCEPT !.notifications = Len(SeedNotifications) + 1]
  /\ inflight = {}
  /\ log = <<>>
  /\ analytics = NoAnalytics
  /\ reply = NoReply

NextNotifications ==
  \/ \E notificationId \in {1, 2, 3, UnknownNotification},
        userId \in {2, 3, UnknownUser} :
       markNotificationAsRead(notificationId, userId)
  \/ \E userId \in {2, 3, UnknownUser} : markAllNotificationsAsRead(userId)
  \/ \E notificationId \in {1, 2, 3, UnknownNotification},
        userId \in {2, 3, UnknownUser} :
       deleteNotification(notificationId, userId)

SpecNotifications == InitNotifications /\ [][NextNotifications]_vars

(***************************************************************************)
(* Email verification: seeded tokens, then overlapping calls of verifyEmail *)
(***************************************************************************)
\* a valid token of user 3, an expired token of user 2 and a used token of
\* user 5
SeedTokens ==
  <<[user_id |-> 3, token |-> "valid", expires_at |-> Now + TicksPerDay,
     used |-> FALSE],
    [user_id |-> 2, token |-> "expired", expires_at |-> Now - 1,
     used |-> FALSE],
    [user_id |-> 5, token |-> "used", expires_at |-> Now + TicksPerDay,
     used |-> TRUE]>>

InitTokens ==
  /\ users = SeedUsers
  /\ teams = SeedTeams
  /\ teamMembers = SeedTeamMembers
  /\ categories = SeedCategories
  /\ budgets = SeedBudgets
  /\ \E st \in Statuses : expenses = <<SeedExpense(st)>>
  /\ notifications = <<>>
  /\ tokens = SeedTokens
  /\ serial = SeedSerial
  /\ inflight = {}
  /\ log = <<>>
  /\ analytics = NoAnalytics
  /\ reply = NoReply

NextTokens ==
  \/ \E token \in {"valid", "expired", "used", "unknown"} :
       verifyEmail_select(token)
  \/ \E call \in inflight : verifyEmail_updateUser(call)
  \/ \E call \in inflight : verifyEmail_updateToken(call)

SpecTokens == InitTokens /\ [][NextTokens]_vars

(***************************************************************************)
(* User management: the seeded users, then any calls of the role and       *)
(* activation handlers                                                     *)
(***************************************************************************)
NextUsers ==
  \/ \E userId \in {2, 3, UnknownUser}, newRole \in Roles,
        requesterId \in Requesters :
       updateUserRole(userId, newRole, requesterId)
  \/ \E userId \in {1, 2, UnknownUser}, requesterId \in Requesters :
       deactivateUser(userId, requesterId)
  \/ \E userId \in {1, 2, UnknownUser}, requesterId \in Requesters :
       reactivateUser(userId, requesterId)

SpecUsers == Init /\ [][NextUsers]_vars

(***************************************************************************)
(* Team managers: teams are created and handed over while roles change     *)
(***************************************************************************)
NextManagers ==
  \/ \E manager_id \in {2, 3, UnknownUser} : createTeam(manager_id)
  \/ \E teamId \in {1, 2}, manager_id \in {NULL, 2, 3, UnknownUser},
        userId \in Requesters :
       updateTeam(teamId, manager_id, userId)
  \/ \E userId \in {2, 3}, newRole \in Roles, requesterId \in {1, 3} :
       updateUserRole(userId, newRole, requesterId)

SpecManagers == Init /\ [][NextManagers]_vars

(***************************************************************************)
(* Admin accounts: one or two admins, then any calls of deactivateUser and *)
(* reactivateUser                                                          *)
(***************************************************************************)
\* user 1 is an admin; user 2 is a manager, or was made an admin by
\* updateUserRole
InitAdmins ==
  /\ \E role \in {"manager", "admin"} : users = [SeedUsers EXCEPT ![2].role = role]
  /\ teams = SeedTeams
  /\ teamMembers = SeedTeamMembers
  /\ categories = SeedCategories
  /\ budgets = SeedBudgets
  /\ expenses = <<SeedExpense("pending")>>
  /\ notifications = <<>>
  /\ tokens = <<>>
  /\ serial = SeedSerial
  /\ inflight = {}
  /\ log = <<>>
  /\ analytics = NoAnalytics
  /\ reply = NoReply

NextAdmins ==
  \/ \E userId \in {1, 2, 3, UnknownUser}, requesterId \in Requesters :
       deactivateUser(userId, requesterId)
  \/ \E userId \in {1, 2, 3, UnknownUser}, requesterId \in Requesters :
       reactivateUser(userId, requesterId)

SpecAdmins == InitAdmins /\ [][NextAdmins]_vars

(***************************************************************************)
(* Claims about the expense lifecycle                                      *)
(***************************************************************************)
\* the edges of the lifecycle
Edges ==
  {<<"draft", "pending">>, <<"pending", "approved">>, <<"pending", "rejected">>,
   <<"approved", "paid">>, <<"rejected", "draft">>}

ApproveOps == {"approveExpense", "approve_expense"}

UpdateOps == {"updateExpense", "update_expense"}

\* the calls that ask for a status: every approval, and an update_expense
\* call that names one
AsksStatus(c) ==
  \/ c.op \in ApproveOps
  \/ c.op = "update_expense" /\ c.req.status # ""

ManagedTeams(u) == {t \in Ids(teams) : teams[t].manager_id = u}

\* the visibility scope of an actor over an expense row: an admin sees every
\* row; a manager sees own rows, rows tagged with a managed team and rows of
\* the members of a managed team
InScope(u, e) ==
  /\ u \in Ids(users)
  /\ \/ users[u].role = "admin"
     \/ e.user_id = u
     \/ /\ users[u].role = "manager"
        /\ \/ e.team_id \in ManagedTeams(u)
           \/ \E m \in teamMembers :
                m.user_id = e.user_id /\ m.team_id \in ManagedTeams(u)

MayApprove(u, e) ==
  /\ u \in Ids(users)
  /\ users[u].role \in {"manager", "admin"}
  /\ InScope(u, e)

ApprovalFieldsOk(e) ==
  /\ (e.approved_by = NULL) <=> (e.approved_at = NULL)
  /\ e.status \in {"draft", "pending"} =>
       e.approved_by = NULL /\ e.approved_at = NULL

\* C1: a stored status changes only along the edges of the lifecycle, and a
\* request for any other (from, to) pair on an existing expense fails with
\* InvalidTransition and leaves the stored status as it was.
C1_OnlyEdges ==
  \A i \in DOMAIN log :
    LET c == log[i] IN
      /\ (c.before.status # c.after.status /\ c.before # NoRow) =>
           <<c.before.status, c.after.status>> \in Edges
      /\ (AsksStatus(c) /\ c.before # NoRow
            /\ <<c.before.status, c.req.status>> \notin Edges) =>
           /\ ~c.ok
           /\ c.error = "InvalidTransition"
           /\ c.after.status = c.before.status

\* C2: of two approval requests that both found the same expense pending,
\* exactly one succeeds and the other fails with Conflict and writes nothing.
C2_OneApprovalWins ==
  \A i, j \in DOMAIN log :
    LET a == log[i]
        b == log[j]
    IN (i < j /\ a.op \in ApproveOps /\ b.op \in ApproveOps /\ a.id = b.id
          /\ a.before.status = "pending" /\ b.before.status = "pending") =>
         \/ a.ok /\ ~b.ok /\ b.error = "Conflict" /\ b.after = b.before
         \/ b.ok /\ ~a.ok /\ a.error = "Conflict" /\ a.after = a.before

\* C3: every expense the handlers store or return has approved_by and
\* approved_at both set or both unset, both unset while it is draft or
\* pending, and a successful transition into approved or rejected leaves the
\* stored expense with both set.
C3_ApprovalFields ==
  /\ \A id \in Ids(expenses) : ApprovalFieldsOk(expenses[id])
  /\ \A i \in DOMAIN log :
       LET c == log[i] IN
         c.ok =>
           /\ ApprovalFieldsOk(c.row)
           /\ ApprovalFieldsOk(c.after)
           /\ (c.op \in ApproveOps /\ c.before # NoRow) =>
                /\ c.after.status = c.req.status
                /\ c.after.approved_by = c.actor
                /\ c.after.approved_at # NULL

\* C4: an approval of a pending expense succeeds only for a manager or admin
\* who has the expense in scope; for any other actor it fails with
\* Unauthorized and the expense is unchanged.
C4_ApproverInScope ==
  \A i \in DOMAIN log :
    LET c == log[i] IN
      (c.op \in ApproveOps /\ c.before.status = "pending"
         /\ ~MayApprove(c.actor, c.before)) =>
        /\ ~c.ok
        /\ c.error = "Unauthorized"
        /\ c.after = c.before

\* C5: updateExpense by a caller who is not the owner, or on an expense that
\* is pending, approved or paid, fails and leaves the stored expense as it
\* was; the stored amount, category or description change only for the owner
\* of a draft or rejected expense.
C5_UpdateGuard ==
  \A i \in DOMAIN log :
    LET c == log[i] IN
      (c.op = "updateExpense" /\ c.before # NoRow) =>
        IF c.actor = c.before.user_id /\ c.before.status \in {"draft", "rejected"}
        THEN c.after.status = c.before.status
        ELSE ~c.ok /\ c.after = c.before

\* the createExpense calls of the log that stored a row
Created == {i \in DOMAIN log : log[i].op = "createExpense" /\ log[i].ok}

\* C18: every expense createExpense stores is a draft with approved_by and
\* approved_at null and owned by the caller, and a call with a category_id or
\* a team_id that does not exist fails and stores no expense.
C18_CreatedAsDraft ==
  /\ \A i \in DOMAIN log :
       LET c == log[i] IN
         c.op = "createExpense" =>
           IF \/ c.req.category_id \notin Ids(categories)
              \/ c.req.team_id # NULL /\ c.req.team_id \notin Ids(teams)
           THEN ~c.ok /\ c.id = NULL
           ELSE c.ok =>
                  /\ c.id \in Ids(expenses)
                  /\ expenses[c.id].status = "draft"
                  /\ expenses[c.id].approved_by = NULL
                  /\ expenses[c.id].approved_at = NULL
                  /\ expenses[c.id].user_id = c.actor
                  /\ expenses[c.id].category_id = c.req.category_id
                  /\ c.row = expenses[c.id]
  /\ Len(expenses) = 1 + Cardinality(Created)

\* one call stored an expense and another failed on a team that does not
\* exist
C18_Witness ==
  /\ Created # {}
  /\ \E i \in DOMAIN log :
       /\ log[i].op = "createExpense" /\ ~log[i].ok
       /\ log[i].req.team_id = UnknownTeam
       /\ log[i].req.category_id \in Ids(categories)

(***************************************************************************)
(* Claims about getExpenseAnalytics                                        *)
(***************************************************************************)
Called == analytics.call.called

Actor == analytics.call.userId

Result == analytics.result

InRange(e) ==
  /\ e.expense_date >= analytics.call.startDateStr
  /\ e.expense_date <= analytics.call.endDateStr

CategoryName(id) == categories[expenses[id].category_id].name

RECURSIVE SumOf(_, _)
\* the sum of field f over a set of records
SumOf(f, S) ==
  IF S = {} THEN 0
  ELSE LET r == CHOOSE x \in S : TRUE IN r[f] + SumOf(f, S \ {r})

\* the result aggregates exactly the expenses S: totals, one category entry
\* per category of S and one month entry per month of S, each with its sum
AggregatesExactly(S) ==
  /\ Result.total_amount = SumAmounts(expenses, S)
  /\ Result.expense_count = Cardinality(S)
  /\ {c.category_name : c \in Result.category_breakdown} =
       {CategoryName(id) : id \in S}
  /\ \A c \in Result.category_breakdown :
       c.amount =
         SumAmounts(expenses, {id \in S : CategoryName(id) = c.category_name})
  /\ {Result.monthly_trend[i].month : i \in DOMAIN Result.monthly_trend} =
       {MonthKey(expenses[id].expense_date) : id \in S}
  /\ \A i \in DOMAIN Result.monthly_trend :
       Result.monthly_trend[i].amount =
         SumAmounts(expenses,
                    {id \in S : MonthKey(expenses[id].expense_date) =
                                  Result.monthly_trend[i].month})

OwnInRange(u) ==
  {id \in Ids(expenses) : expenses[id].user_id = u /\ InRange(expenses[id])}

\* C6: for an actor with role user the analytics aggregate exactly the
\* expenses in the date range whose user_id is the actor's id, whatever the
\* team_id of other users' expenses and the teams the actor belongs to.
C6_UserSeesOwn ==
  (Called /\ analytics.call.userRole = "user") =>
    /\ analytics.ok
    /\ AggregatesExactly(OwnInRange(Actor))

\* a regular user who is a member of team 1 has an expense in the range, and
\* so has another user, tagged with team 1
C6_Witness ==
  /\ Called /\ analytics.ok /\ analytics.call.userRole = "user"
  /\ \E m \in teamMembers : m.user_id = Actor /\ m.team_id = 1
  /\ Result.expense_count >= 1
  /\ \E id \in Ids(expenses) :
       /\ expenses[id].user_id # Actor
       /\ expenses[id].team_id = 1
       /\ InRange(expenses[id])

\* C7: for an actor with role manager the analytics aggregate exactly the
\* expenses in the date range that are the actor's own, or tagged with a team
\* the actor manages (none, one or several), or owned by a member of such a
\* team, even with team_id null.
C7_ManagerScope ==
  (Called /\ analytics.call.userRole = "manager" /\ Actor \in Ids(users)) =>
    /\ analytics.ok
    /\ AggregatesExactly({id \in Ids(expenses) :
                            InRange(expenses[id]) /\ InScope(Actor, expenses[id])})

\* C8: a call with a userId that matches no user fails with NotFound.
C8_UnknownActorNotFound ==
  (Called /\ Actor \notin Ids(users)) =>
    /\ ~analytics.ok
    /\ analytics.error = "NotFound"

\* C9: a call that resolves yields no NaN: avg_expense is 0 when
\* expense_count is 0, every category percentage is 0 when total_amount is 0
\* and variance_percentage is 0 when budget_amount is 0; and a call fails only
\* on the team condition of a manager of several teams, never on a denominator.
C9_ZeroOnEmptyDenominator ==
  Called =>
    /\ analytics.ok =>
         /\ Result.expense_count = 0 => Result.avg_expense = 0
         /\ Result.total_amount = 0 =>
              \A c \in Result.category_breakdown : c.percentage = 0
         /\ Result.budget_vs_actual.budget_amount = 0 =>
              Result.budget_vs_actual.variance_percentage = 0
         /\ Result.avg_expense # NaN
         /\ \A c \in Result.category_breakdown : c.percentage # NaN
         /\ Result.budget_vs_actual.variance_percentage # NaN
    /\ ~analytics.ok =>
         /\ analytics.call.userRole = "manager"
         /\ Len(teamIdList(Actor)) > 1

\* the store holds expenses, none matches and no budget is visible: every
\* denominator is empty
C9_Witness ==
  /\ Called /\ analytics.ok
  /\ expenses # <<>>
  /\ Result.expense_count = 0
  /\ Result.total_amount = 0
  /\ Result.budget_vs_actual.budget_amount = 0

\* C10: whenever total_amount > 0 the percentages of the category entries sum
\* to 100, less at most one unit of precision per entry, and the entry amounts
\* sum to total_amount; whenever no expense matches there is no entry.
C10_BreakdownSums ==
  (Called /\ analytics.ok) =>
    /\ Result.total_amount > 0 =>
         /\ SumOf("percentage", Result.category_breakdown) <= 100 * PctScale
         /\ SumOf("percentage", Result.category_breakdown) >=
              100 * PctScale - Cardinality(Result.category_breakdown)
         /\ SumOf("amount", Result.category_breakdown) = Result.total_amount
    /\ Result.expense_count = 0 => Result.category_breakdown = {}

\* two categories share a positive total and their percentages are cut
C10_Witness ==
  /\ Called /\ analytics.ok
  /\ Result.total_amount > 0
  /\ Cardinality(Result.category_breakdown) = 2
  /\ SumOf("percentage", Result.category_breakdown) < 100 * PctScale

\* the expenses in the date range that are in the scope of the actor
ScopeInRange ==
  {id \in Ids(expenses) : InRange(expenses[id]) /\ InScope(Actor, expenses[id])}

\* C11: category_breakdown has exactly one entry per distinct category with an
\* in-scope expense in the date range, the entry's amount is the sum of that
\* category's in-scope expenses, and two categories never share an entry.
C11_OneEntryPerCategory ==
  (Called /\ analytics.ok) =>
    LET cats == {expenses[id].category_id : id \in ScopeInRange} IN
      /\ Cardinality(Result.category_breakdown) = Cardinality(cats)
      /\ \A c \in cats :
           \E entry \in Result.category_breakdown :
             /\ entry.category_name = categories[c].name
             /\ entry.amount =
                  SumAmounts(expenses,
                             {id \in ScopeInRange : expenses[id].category_id = c})

\* C12: monthly_trend has exactly one entry for each month that holds an
\* in-scope expense dated within the range, both bounds inclusive, its amount
\* is that month's sum, a month without such an expense has no entry, and the
\* entries are strictly increasing by month.
C12_MonthlyTrend ==
  (Called /\ analytics.ok /\ Actor \in Ids(users)) =>
    LET trend == Result.monthly_trend IN
      /\ {trend[i].month : i \in DOMAIN trend} =
           {MonthKey(expenses[id].expense_date) : id \in ScopeInRange}
      /\ \A i \in DOMAIN trend :
           trend[i].amount =
             SumAmounts(expenses,
                        {id \in ScopeInRange :
                           MonthKey(expenses[id].expense_date) = trend[i].month})
      /\ \A i, j \in DOMAIN trend : i < j => trend[i].month < trend[j].month

\* the budgets the actor may see: every budget for an admin, own budgets for
\* a manager or a user
VisibleBudgets ==
  {b \in Ids(budgets) :
     analytics.call.userRole = "admin" \/ budgets[b].user_id = Actor}

\* C13: budget_amount is the sum over exactly the budgets that are active,
\* overlap the date range and are visible to the actor (own budgets only for
\* a manager, also when the total holds team expenses), and variance is
\* total_amount minus budget_amount.
C13_BudgetVsActual ==
  (Called /\ analytics.ok) =>
    LET bva == Result.budget_vs_actual IN
      /\ bva.budget_amount =
           SumAmounts(budgets,
                      {b \in VisibleBudgets :
                         /\ budgets[b].is_active
                         /\ budgets[b].start_date <= analytics.call.endDateStr
                         /\ budgets[b].end_date >= analytics.call.startDateStr})
      /\ bva.variance = Result.total_amount - bva.budget_amount
      /\ bva.actual_amount = Result.total_amount

\* a manager's total holds an expense of another user tagged with the
\* managed team, while active budgets of other users overlap the range and
\* the manager's own inactive budget does too
C13_Witness ==
  /\ Called /\ analytics.ok /\ analytics.call.userRole = "manager"
  /\ \E id \in Ids(expenses) :
       /\ expenses[id].user_id # Actor
       /\ Conditions(expenses[id], Actor, "manager",
                     analytics.call.startDateStr, analytics.call.endDateStr)
  /\ \E b \in Ids(budgets) :
       /\ budgets[b].user_id # Actor /\ budgets[b].is_active
       /\ budgets[b].start_date <= analytics.call.endDateStr
       /\ budgets[b].end_date >= analytics.call.startDateStr
  /\ \E b \in Ids(budgets) : budgets[b].user_id = Actor /\ ~budgets[b].is_active
  /\ Result.budget_vs_actual.budget_amount > 0
  /\ Result.budget_vs_actual.variance # 0

(***************************************************************************)
(* Claims about budget utilization and notifications                       *)
(***************************************************************************)
\* the expenses of table that count against budget b as of day asOf: owned
\* by the budget's owner, approved or paid, of the budget's category (any
\* category when it is null) and dated within the budget's period up to asOf
Counted(b, table, asOf) ==
  {id \in DOMAIN table :
     /\ table[id].user_id = budgets[b].user_id
     /\ table[id].status \in {"approved", "paid"}
     /\ budgets[b].category_id = NULL \/
          table[id].category_id = budgets[b].category_id
     /\ table[id].expense_date >= budgets[b].start_date
     /\ table[id].expense_date <= budgets[b].end_date
     /\ table[id].expense_date <= asOf}

Spent(b, table, asOf) == SumAmounts(table, Counted(b, table, asOf))

\* in units of 1/PctScale percent, as alert_threshold is
Utilization(b, table, asOf) ==
  IF budgets[b].amount = 0 THEN 0
  ELSE (Spent(b, table, asOf) * 100 * PctScale) \div budgets[b].amount

AlertTriggered(b, table, asOf) ==
  Utilization(b, table, asOf) >= budgets[b].alert_threshold

\* the evaluation of budget b over the expenses of table
Evaluate(b, table, asOf) ==
  [budget_id |-> b,
   current_spending |-> Spent(b, table, asOf),
   utilization_percentage |-> Utilization(b, table, asOf),
   is_over_budget |-> Spent(b, table, asOf) > budgets[b].amount,
   alert_triggered |-> AlertTriggered(b, table, asOf)]

ActiveBudgetsOf(u) ==
  {b \in Ids(budgets) : budgets[b].user_id = u /\ budgets[b].is_active}

\* the evaluations of the active budgets of user u, in the order of their ids
Evaluations(u) ==
  LET ids == SeqOfSet(ActiveBudgetsOf(u))
  IN [i \in DOMAIN ids |-> Evaluate(ids[i], expenses, ISODate(Now))]

\* C14: getBudgetUtilization reports, for every active budget of the user,
\* spent as the sum of the owner's approved or paid expenses of the budget's
\* category within [start_date, min(end_date, as_of)], utilization as
\* spent/amount*100 (0 when amount is 0), alert_triggered iff utilization >=
\* alert_threshold and is_over_budget iff spent > amount.
C14_UtilizationReference ==
  (reply.op = "getBudgetUtilization" /\ reply.ok) =>
    \A b \in ActiveBudgetsOf(reply.actor) :
      \E i \in DOMAIN reply.rows :
        LET r == reply.rows[i]
            e == Evaluate(b, expenses, ISODate(Now))
        IN /\ r.budget_id = b
           /\ r.current_spending = e.current_spending
           /\ r.utilization_percentage = e.utilization_percentage
           /\ r.is_over_budget = e.is_over_budget
           /\ r.alert_triggered = e.alert_triggered

\* the full recomputation for the user of the last call
Recomputed == Evaluations(reply.actor)

\* C15: an evaluation repeated with no change of the store in between yields
\* the same result, and every evaluation equals the full recomputation from
\* the expenses stored when it is made.
C15_PureProjection ==
  [][(reply'.op = "getBudgetUtilization" /\ reply'.ok) =>
       /\ (reply.op = "getBudgetUtilization" /\ reply.actor = reply'.actor
             /\ UNCHANGED store) =>
            reply'.rows = reply.rows
       /\ reply'.rows = Recomputed']_vars

\* a step that appends one call to the log
Logged == Len(log') = Len(log) + 1

\* the call a step appends to the log
LastCall == log'[Len(log')]

\* the notifications a step enqueues
Enqueued ==
  {notifications'[j] : j \in (DOMAIN notifications') \ (DOMAIN notifications)}

\* the expenses with expense id in the status a call reports for it
Transitioned(id, status) == [expenses EXCEPT ![id].status = status]

\* the active budgets that an expense row falls under: those of its owner, of
\* its category or of no category
MatchingBudgets(e) ==
  {b \in ActiveBudgetsOf(e.user_id) :
     budgets[b].category_id = NULL \/ budgets[b].category_id = e.category_id}

\* a call that reports an expense as moved along an edge of the lifecycle
\* into or out of approved
CrossesApproved(c) ==
  /\ c.op \in ApproveOps
  /\ c.ok
  /\ c.before # NoRow
  /\ <<c.before.status, c.row.status>> \in Edges
  /\ (c.before.status = "approved") # (c.row.status = "approved")

\* C16: when an expense moves into or out of approved, a budget_alert for the
\* owner is enqueued for every matching active budget whose alert_triggered
\* newly becomes true, and none for a budget whose alert_triggered stays
\* false.
C16_AlertOnCrossing ==
  [][(Logged /\ CrossesApproved(LastCall)) =>
       \A b \in MatchingBudgets(LastCall.before) :
         LET was == AlertTriggered(b, expenses, ISODate(Now))
             is == AlertTriggered(b, Transitioned(LastCall.id, LastCall.row.status),
                                  ISODate(Now))
             alerts == {n \in Enqueued :
                          /\ n.type = "budget_alert"
                          /\ n.user_id = budgets[b].user_id
                          /\ n.metadata.budget_id = b}
         IN /\ (~was /\ is) => alerts # {}
            /\ ~is => alerts = {}]_vars

\* C17: each successful pending->approved or pending->rejected transition
\* enqueues exactly one approval-result notification, addressed to the owner
\* of the expense and of the type of the new status; a failed transition
\* enqueues none.
C17_OneApprovalResult ==
  [][(Logged /\ LastCall.op \in ApproveOps /\ LastCall.before # NoRow) =>
       LET c == LastCall
           results == {n \in Enqueued :
                         n.type \in {"expense_approved", "expense_rejected"}}
       IN IF c.ok /\ c.before.status = "pending"
             /\ c.row.status \in {"approved", "rejected"}
          THEN /\ Cardinality(results) = 1
               /\ \A n \in results :
                    /\ n.user_id = c.before.user_id
                    /\ n.type = IF c.row.status = "approved"
                                THEN "expense_approved" ELSE "expense_rejected"
                    /\ n.metadata.expense_id = c.id
          ELSE ~c.ok => results = {}]_vars

(***************************************************************************)
(* Claims about budgets                                                    *)
(***************************************************************************)
\* C19: every stored budget has start_date <= end_date; createBudget and
\* updateBudget with start_date later than end_date fail with InvalidInput
\* and store or change nothing.
C19_BudgetDatesOrdered ==
  /\ \A b \in Ids(budgets) : budgets[b].start_date <= budgets[b].end_date
  /\ (reply.op \in {"createBudget", "updateBudget"}
        /\ reply.req.end_date # NULL
        /\ ISODate(reply.req.start_date) > ISODate(reply.req.end_date)) =>
       ~reply.ok /\ reply.error = "InvalidInput"

(***************************************************************************)
(* Claims about categories                                                 *)
(***************************************************************************)
RECURSIVE ReachesRoot(_, _)
\* following parent_id from category c ends at a root within fuel steps
ReachesRoot(c, fuel) ==
  IF c = NULL THEN TRUE
  ELSE IF fuel = 0 \/ c \notin Ids(categories) THEN FALSE
  ELSE ReachesRoot(categories[c].parent_id, fuel - 1)

\* C20: after any sequence of createCategory and updateCategory calls every
\* non-null parent_id references an existing category, each category has at
\* most one parent, and following parent_id from any category never returns
\* to a category already visited.
C20_CategoryForest ==
  /\ \A c \in Ids(categories) :
       categories[c].parent_id # NULL => categories[c].parent_id \in Ids(categories)
  /\ \A c \in Ids(categories) :
       Cardinality({p \in Ids(categories) : categories[c].parent_id = p}) <= 1
  /\ \A c \in Ids(categories) : ReachesRoot(c, Len(categories))

\* a created category lies under a created category that lies under a seeded
\* one, and updateCategory was just asked to make category 1 its own parent
C20_Witness ==
  /\ \E c \in Ids(categories) :
       /\ categories[c].parent_id # NULL
       /\ categories[categories[c].parent_id].parent_id # NULL
  /\ reply.op = "updateCategory"
  /\ reply.ok
  /\ reply.req.parent_id = reply.req.id

\* C21: an inactive category is never used in a new assignment: createExpense
\* with an inactive category_id and createCategory with an inactive parent_id
\* fail and store nothing, and no stored expense loses its category.
C21_InactiveNeverAssigned ==
  /\ \A i \in DOMAIN log :
       LET c == log[i] IN
         (c.op = "createExpense" /\ c.req.category_id \in Ids(categories)
            /\ ~categories[c.req.category_id].is_active) =>
           ~c.ok /\ c.id = NULL
  /\ (reply.op = "createCategory" /\ reply.req.parent_id \in Ids(categories)
        /\ ~categories[reply.req.parent_id].is_active) =>
       ~reply.ok
  /\ \A c \in Ids(categories) :
       categories[c].parent_id # NULL => categories[categories[c].parent_id].is_active
  /\ \A i \in Created : expenses[log[i].id].category_id = log[i].req.category_id

(***************************************************************************)
(* Claims about teams and memberships                                      *)
(***************************************************************************)
TeamOps == {"updateTeam", "deleteTeam", "addTeamMember", "removeTeamMember"}

\* the requester exists and is an admin or the current manager of the team
Authorized(teamId, requester) ==
  /\ teamId \in Ids(teams)
  /\ requester \in Ids(users)
  /\ users[requester].role = "admin" \/ teams[teamId].manager_id = requester

AccessDenied ==
  {"Access denied: Only team managers or admins can update teams",
   "Access denied: Only team managers or admins can delete teams",
   "Access denied: Only team managers or admins can add members",
   "Access denied: Only team managers or admins can remove members"}

RequesterNotFound == {"User not found", "Manager not found"}

\* C22 as stated: a call of updateTeam, deleteTeam, addTeamMember or
\* removeTeamMember on a team resolves only for a requester who exists and is
\* an admin or the current manager of the team; for every other requester it
\* throws 'Access denied' and leaves teams, memberships and expenses as they
\* were.
C22_AccessDeniedForOthers ==
  [][(reply'.op \in TeamOps /\ reply'.req.teamId \in Ids(teams)) =>
       LET authorized == Authorized(reply'.req.teamId, reply'.actor)
       IN /\ reply'.ok => authorized
          /\ ~authorized =>
               /\ ~reply'.ok
               /\ reply'.error \in AccessDenied
               /\ UNCHANGED <<teams, teamMembers, expenses>>]_vars

\* C22 as amended: such a call resolves only for a requester who exists and is
\* an admin or the current manager of the team; for a requester who exists and
\* is neither it throws 'Access denied', for a requester who does not exist it
\* throws 'User not found' or 'Manager not found', and in both cases teams,
\* memberships and expenses are left as they were.
C22_OnlyAuthorizedTakeEffect ==
  [][(reply'.op \in TeamOps /\ reply'.req.teamId \in Ids(teams)) =>
       LET authorized == Authorized(reply'.req.teamId, reply'.actor)
       IN /\ reply'.ok => authorized
          /\ ~authorized =>
               /\ ~reply'.ok
               /\ IF reply'.actor \in Ids(users)
                  THEN reply'.error \in AccessDenied
                  ELSE reply'.error \in RequesterNotFound
               /\ UNCHANGED <<teams, teamMembers, expenses>>]_vars

\* a member of team 1 was refused the removal of a member of a team that has
\* members and expenses
C22_Witness ==
  /\ reply.op = "removeTeamMember"
  /\ reply.actor = 3
  /\ reply.error \in AccessDenied
  /\ Memberships(reply.req.teamId, reply.req.userId) # {}
  /\ \E i \in Ids(expenses) : expenses[i].team_id = reply.req.teamId

\* C23: a deleteTeam(t) that resolves leaves no team t and no membership of
\* t, sets team_id to null on exactly the expenses that had team_id = t,
\* deletes no expense and changes no other field of one, and leaves the other
\* teams, their memberships and their expenses as they were.
C23_DeleteTeamFrame ==
  [][(reply'.op = "deleteTeam" /\ reply'.ok) =>
       LET t == reply'.req.teamId
       IN /\ t \in Ids(teams)
          /\ DOMAIN teams' = Ids(teams) \ {t}
          /\ \A x \in DOMAIN teams' : teams'[x] = teams[x]
          /\ \A m \in teamMembers' : m.team_id # t
          /\ \A m \in teamMembers : m.team_id # t => m \in teamMembers'
          /\ teamMembers' \subseteq teamMembers
          /\ DOMAIN expenses' = Ids(expenses)
          /\ \A i \in Ids(expenses) :
               expenses'[i] = IF expenses[i].team_id = t
                              THEN [expenses[i] EXCEPT !.team_id = NULL]
                              ELSE expenses[i]]_vars

\* team 1 was deleted: its approved expense has no team any more, the expense
\* and the membership of team 2 are still there
C23_Witness ==
  /\ reply.op = "deleteTeam"
  /\ reply.ok
  /\ reply.req.teamId = 1
  /\ 1 \notin Ids(teams)
  /\ expenses[2].status = "approved" /\ expenses[2].team_id = NULL
  /\ expenses[4].team_id = 2
  /\ \E m \in teamMembers : m.team_id = 2

\* C24: a removeTeamMember(t, u) of an authorized requester that resolves
\* deletes the (t, u) membership and no other, and sets team_id to null on
\* exactly the expenses of u with team_id = t and status pending; every other
\* expense, every other membership and the teams are as they were. When u is
\* not a member of t the call throws 'User is not a member of this team' and
\* changes nothing.
C24_RemoveMemberFrame ==
  [][(reply'.op = "removeTeamMember"
        /\ Authorized(reply'.req.teamId, reply'.actor)) =>
       LET t == reply'.req.teamId
           u == reply'.req.userId
       IN IF Memberships(t, u) = {}
          THEN /\ ~reply'.ok
               /\ reply'.error = "User is not a member of this team"
               /\ UNCHANGED <<teams, teamMembers, expenses>>
          ELSE /\ reply'.ok
               /\ teamMembers' =
                    {m \in teamMembers : ~(m.team_id = t /\ m.user_id = u)}
               /\ DOMAIN expenses' = Ids(expenses)
               /\ \A i \in Ids(expenses) :
                    expenses'[i] =
                      IF expenses[i].team_id = t /\ expenses[i].user_id = u
                         /\ expenses[i].status = "pending"
                      THEN [expenses[i] EXCEPT !.team_id = NULL]
                      ELSE expenses[i]
               /\ UNCHANGED teams]_vars

\* user 3 was removed from team 1: their pending expense of team 1 has no team
\* any more, their approved one, the pending one of user 5 and their pending
\* one of team 2 kept theirs, and so did the other memberships
C24_Witness ==
  /\ reply.op = "removeTeamMember"
  /\ reply.ok
  /\ reply.req = [teamId |-> 1, userId |-> 3]
  /\ Memberships(1, 3) = {}
  /\ expenses[1].team_id = NULL
  /\ expenses[2].team_id = 1
  /\ expenses[3].team_id = 1
  /\ expenses[4].team_id = 2
  /\ Memberships(1, 5) # {} /\ Memberships(2, 3) # {}

\* C25: whatever the order in which addTeamMember and removeTeamMember calls
\* and their statements run, team_members holds at most one row for each
\* (team_id, user_id), and an addTeamMember that returns while the user is a
\* member of the team has thrown 'User is already a member of this team' and
\* inserted nothing.
C25_OneRowPerPair ==
  /\ [](\A m1 \in teamMembers, m2 \in teamMembers :
          (m1.team_id = m2.team_id /\ m1.user_id = m2.user_id) => m1 = m2)
  /\ [][(reply' # reply /\ reply'.op = "addTeamMember"
           /\ Authorized(reply'.req.teamId, reply'.actor)
           /\ Memberships(reply'.req.teamId, reply'.req.userId) # {}) =>
          /\ ~reply'.ok
          /\ reply'.error = "User is already a member of this team"
          /\ UNCHANGED teamMembers]_vars

(***************************************************************************)
(* Claims about notifications                                              *)
(***************************************************************************)
\* C26: markNotificationAsRead(n, u) marks n as read and deleteNotification(n,
\* u) removes n, and report success, only if n exists and its user_id is u;
\* otherwise they report success = false and the notifications are as they
\* were. No other row is changed in either case.
C26_OwnNotificationOnly ==
  [][(reply'.op \in {"markNotificationAsRead", "deleteNotification"}) =>
       LET n == reply'.req.notificationId
           u == reply'.req.userId
       IN IF n \in Ids(notifications) /\ notifications[n].user_id = u
          THEN /\ reply'.row.success
               /\ reply'.op = "markNotificationAsRead" =>
                    notifications' =
                      [notifications EXCEPT ![n].is_read = TRUE]
               /\ reply'.op = "deleteNotification" =>
                    /\ DOMAIN notifications' = Ids(notifications) \ {n}
                    /\ \A i \in DOMAIN notifications' :
                         notifications'[i] = notifications[i]
          ELSE /\ ~reply'.row.success
               /\ UNCHANGED notifications]_vars

\* user 3 was refused the deletion of the unread notification of user 2,
\* which is still there and unread
C26_Witness ==
  /\ reply.op = "deleteNotification"
  /\ reply.req = [notificationId |-> 2, userId |-> 3]
  /\ ~reply.row.success
  /\ 2 \in Ids(notifications)
  /\ ~notifications[2].is_read
  /\ 1 \notin Ids(notifications)

(***************************************************************************)
(* Claims about email verification                                         *)
(***************************************************************************)
\* the token record of the token, if there is one, is unused and not expired
Redeemable(token) ==
  \E i \in Ids(tokens) :
    tokens[i].token = token /\ ~tokens[i].used /\ ~(Now > tokens[i].expires_at)

\* C27: whatever the order in which verifyEmail calls and their statements
\* run, at most one call returns success = true for each token; and a call
\* that returns while the token is unknown, used or expired returns success =
\* false and leaves email_verified and used as they were.
C27_OneSuccessPerToken ==
  /\ [](\A i \in DOMAIN log, j \in DOMAIN log :
          (log[i].op = "verifyEmail" /\ log[j].op = "verifyEmail"
             /\ log[i].ok /\ log[j].ok /\ log[i].req.token = log[j].req.token)
            => i = j)
  /\ [][(Logged /\ LastCall.op = "verifyEmail"
           /\ ~Redeemable(LastCall.req.token)) =>
          ~LastCall.ok /\ UNCHANGED <<users, tokens>>]_vars

(***************************************************************************)
(* Claims about users                                                      *)
(***************************************************************************)
UserOps == {"updateUserRole", "deactivateUser", "reactivateUser"}

UnauthorizedErrors ==
  {"Unauthorized: Only admins can update user roles",
   "Unauthorized: Only admins can deactivate users",
   "Unauthorized: Only admins can reactivate users"}

\* C28: a call of updateUserRole, deactivateUser or reactivateUser changes a
\* role or an is_active flag only when the requester exists and has role
\* admin; for any other requester it throws Unauthorized, and for an admin
\* and a target that does not exist 'User not found', and in both cases every
\* user record is as it was. A call that resolves changes the target only.
C28_AdminOnly ==
  [][(reply'.op \in UserOps) =>
       LET requester == reply'.actor
           target == reply'.req.userId
           admin == requester \in Ids(users) /\ users[requester].role = "admin"
       IN /\ (reply'.ok \/ users' # users) => admin
          /\ ~admin =>
               /\ ~reply'.ok
               /\ reply'.error \in UnauthorizedErrors
               /\ UNCHANGED users
          /\ (admin /\ target \notin Ids(users)) =>
               /\ ~reply'.ok
               /\ reply'.error = "User not found"
               /\ UNCHANGED users
          /\ reply'.ok =>
               /\ target \in Ids(users)
               /\ DOMAIN users' = Ids(users)
               /\ \A u \in Ids(users) \ {target} : users'[u] = users[u]]_vars

\* the manager user 2 was refused the deactivation of the admin, after the
\* admin had changed the role of user 3
C28_Witness ==
  /\ reply.op = "deactivateUser"
  /\ reply.actor = 2
  /\ reply.req.userId = 1
  /\ reply.error \in UnauthorizedErrors
  /\ users[2].role = "manager"
  /\ users[1].is_active
  /\ users[3].role # "user"

\* C29: after any calls of createTeam, updateTeam and updateUserRole the
\* manager_id of every team is the id of a user whose role is manager or
\* admin.
C29_ManagersHaveRole ==
  \A t \in Ids(teams) :
    /\ teams[t].manager_id \in Ids(users)
    /\ users[teams[t].manager_id].role \in {"manager", "admin"}

\* C30: after any calls of deactivateUser and reactivateUser, from a state
\* with an active admin, some user with role admin is active.
C30_ActiveAdminRemains ==
  \E u \in Ids(users) : users[u].role = "admin" /\ users[u].is_active

====
